---- MODULE Spec2Model ----
(***************************************************************************)
(* A state-machine model of vispy's ImageVisual (vispy/visuals/image.py):  *)
(* the lazy rebuild flags, the mutators that set them and the builders     *)
(* that _prepare_draw runs before every draw; and of the scene beside it:  *)
(* MoleculeVisual (vispy/visuals/molecule.py) and Renderer                 *)
(* (vispy/scene/renderer.py).                                              *)
(***************************************************************************)
EXTENDS Integers, Sequences, FiniteSets, TLC

VARIABLES image, texture, shared_program, views, lastOp, steps,
          molecule, renderer

vars == <<image, texture, shared_program, views, lastOp, steps,
          molecule, renderer>>

None == "None"

\* ------------------------------------------------------------------ bounds
\* Largest gamma value a caller passes (values range over -1 .. MaxGamma).
MaxGamma == 2
\* Largest color-limit value a caller passes (pairs over 0 .. MaxClim).
MaxClim == 1
\* Largest number of views of one image, the visual itself included.
MaxViews == 2
\* Largest number of atoms in an array passed to a MoleculeVisual.
MaxAtoms == 2
\* Largest width and height of a canvas.
MaxSize == 2

\* ------------------------------------------------------------------ strings
\* Python strings are modelled by their character codes, so that str.lower()
\* and the alphabetical order of sorted() are computed, not assumed.
Chars ==
    "Bilinear" :> <<66, 105, 108, 105, 110, 101, 97, 114>> @@
    "Bicubic" :> <<66, 105, 99, 117, 98, 105, 99>> @@
    "Nearest" :> <<78, 101, 97, 114, 101, 115, 116>> @@
    "bilinear" :> <<98, 105, 108, 105, 110, 101, 97, 114>> @@
    "bicubic" :> <<98, 105, 99, 117, 98, 105, 99>> @@
    "nearest" :> <<110, 101, 97, 114, 101, 115, 116>> @@
    "NEAREST" :> <<78, 69, 65, 82, 69, 83, 84>> @@
    "bogus" :> <<98, 111, 103, 117, 115>>

Str(codes) == CHOOSE t \in DOMAIN Chars : Chars[t] = codes

\* str.lower() on one character code (ASCII).
LowerCode(c) == IF c >= 65 /\ c <= 90 THEN c + 32 ELSE c

\* str.lower()
lower(n) == Str([i \in DOMAIN Chars[n] |-> LowerCode(Chars[n][i])])

\* Python's < on strings: lexicographic on the character codes.
RECURSIVE CodesLess(_, _)
CodesLess(a, b) ==
    IF b = <<>> THEN FALSE
    ELSE IF a = <<>> THEN TRUE
    ELSE IF Head(a) # Head(b) THEN Head(a) < Head(b)
    ELSE CodesLess(Tail(a), Tail(b))

StrLess(a, b) == CodesLess(Chars[a], Chars[b])

\* Insert string n into the sorted sequence sq.
RECURSIVE Insert(_, _)
Insert(n, sq) ==
    IF sq = <<>> THEN <<n>>
    ELSE IF StrLess(Head(sq), n) THEN <<Head(sq)>> \o Insert(n, Tail(sq))
    ELSE <<n>> \o sq

\* sorted(names)
RECURSIVE sorted(_)
sorted(names) ==
    IF names = <<>> THEN <<>> ELSE Insert(Head(names), sorted(Tail(names)))

Range(sq) == {sq[i] : i \in DOMAIN sq}

\* ------------------------------------------------- interpolation registry
\* load_spatial_filters(): the filter names as the kernel file spells them.
load_spatial_filters == <<"Bilinear", "Bicubic", "Nearest">>

\* The shader function objects: one software filter per registry name, and
\* the single hardware lookup shared by 'nearest' and 'bilinear'.
FilterFn(n) == [template |-> "texture_lookup_interpolated", filter |-> n]
hardware_lookup == [template |-> "texture_lookup", filter |-> None]

\* _init_interpolation without the sort of the names.
_init_interpolation_unsorted(interpolation_names) ==
    LET lowered == [i \in DOMAIN interpolation_names |->
                        lower(interpolation_names[i])]
        fun == [n \in Range(lowered) |->
                   FilterFn(interpolation_names[
                       CHOOSE i \in DOMAIN lowered : lowered[i] = n])]
    IN  [names |-> lowered,
         fun |-> [n \in DOMAIN fun \cup {"nearest", "bilinear"} |->
                    IF n \in {"nearest", "bilinear"} THEN hardware_lookup
                    ELSE fun[n]]]

\* ImageVisual._init_interpolation: lower-cases the registry names, maps each
\* to its filter function, sorts the names, and overwrites 'nearest' and
\* 'bilinear' with the hardware lookup.
_init_interpolation(interpolation_names) ==
    LET lowered == [i \in DOMAIN interpolation_names |->
                        lower(interpolation_names[i])]
        fun == [n \in Range(lowered) |->
                   FilterFn(interpolation_names[
                       CHOOSE i \in DOMAIN lowered : lowered[i] = n])]
    IN  [names |-> sorted(lowered),
         fun |-> [n \in DOMAIN fun \cup {"nearest", "bilinear"} |->
                    IF n \in {"nearest", "bilinear"} THEN hardware_lookup
                    ELSE fun[n]]]

_interpolation_names == _init_interpolation(load_spatial_filters).names
_interpolation_fun == _init_interpolation(load_spatial_filters).fun

\* The functions objects that can carry a 'shape' / 'texture' uniform.
FnObjects == {_interpolation_fun[n] : n \in DOMAIN _interpolation_fun}

\* ------------------------------------------------------------------ values
NoErr == [ok |-> TRUE]
ValueError(msg) == [type |-> "ValueError", msg |-> msg]
KeyError(msg) == [type |-> "KeyError", msg |-> msg]
RuntimeError(msg) == [type |-> "RuntimeError", msg |-> msg]

\* No array (Python None), and the arrays callers pass: shape, dtype and the
\* smallest and largest pixel value.
NoData == [none |-> TRUE]
\* ImA: a luminance image; ImB: an RGB image of the same height and width, in
\* a dtype set_data casts; ImC: a luminance image of another size; ImBad: five
\* bands, which no texture holds.
ImA == [shape |-> <<1, 2>>, dtype |-> "uint8", lo |-> 0, hi |-> 2]
ImB == [shape |-> <<1, 2, 3>>, dtype |-> "float64", lo |-> 1, hi |-> 1]
ImC == [shape |-> <<2, 1>>, dtype |-> "float32", lo |-> 0, hi |-> 1]
ImBad == [shape |-> <<1, 2, 5>>, dtype |-> "uint8", lo |-> 0, hi |-> 1]
Images == {ImA, ImB, ImC, ImBad}

\* data.shape[:2], data.shape[:2][::-1], and the number of bands
shape2(d) == SubSeq(d.shape, 1, 2)
Reversed(p) == <<p[2], p[1]>>
Channels(d) == IF Len(d.shape) = 2 THEN 1 ELSE d.shape[3]

\* Color limits: 'auto', a pair, or a string that is not 'auto'.
Auto == [auto |-> TRUE]
Pair(lo, hi) == [lo |-> lo, hi |-> hi]
BadClim == [string |-> "bogus"]
NoClim == [none |-> TRUE]
ClimInputs ==
    {Auto, BadClim} \cup {Pair(0, b) : b \in 0 .. MaxClim}

\* A normalized limit is a fraction or +infinity.
Frac(n, d) == [num |-> n, den |-> d]
Inf == [inf |-> TRUE]

GammaInputs == -1 .. MaxGamma
MethodInputs == {"auto", "subdivide", "impostor", "bogus"}
InterpolationInputs == Range(_interpolation_names) \cup {"Bicubic", "NEAREST", "bogus"}
CmapInputs == {"viridis", "grays"}
GridInputs == {<<1, 2>>}
TextureFormatInputs == {None, "auto"}

\* ---------------------------------------------------------- texture store
\* CPUScaledTexture2D / GPUScaledTexture2D (vispy/visuals/_scalable_textures.py)
\* and gloo.texture.should_cast_to_f32.
should_cast_to_f32(dtype) == dtype = "float64"

\* The storage format a GPU-scaled 'auto' texture picks for an array.
InternalFormat(d) == <<Channels(d), IF d.dtype = "uint8" THEN "8" ELSE "32f">>

ScaledTexture2D(kind, data, interpolation) ==
    [kind |-> kind,
     clim |-> NoClim,
     data_limits |-> NoClim,
     data_dtype |-> IF data = NoData THEN None ELSE data.dtype,
     internalformat |->
        IF kind = "cpu" THEN <<>>
        ELSE IF data = NoData THEN <<1, "32f">> ELSE InternalFormat(data),
     interpolation |-> interpolation,
     shape |-> IF data = NoData THEN <<>> ELSE data.shape]

\* check_data_format: TRUE when the texture can hold the array.
check_data_format(t, data) == Channels(data) \in {1, 2, 3, 4}

\* set_clim: stores the limits and reports whether the data must be uploaded
\* again.
set_clim(t, clim) ==
    IF clim = BadClim
    THEN [t |-> t, need |-> FALSE,
          err |-> ValueError("clim must be 'auto' if a string")]
    ELSE IF clim = Auto
    THEN [t |-> [t EXCEPT !.clim = Auto], need |-> TRUE, err |-> NoErr]
    ELSE [t |-> [t EXCEPT !.clim = clim],
          need |-> /\ t.kind = "cpu"
                   /\ t.data_limits # NoClim
                   /\ (clim.lo < t.data_limits.lo \/ clim.hi > t.data_limits.hi),
          err |-> NoErr]

\* clim_normalized: the limits as the shader sees them, or a RuntimeError
\* while they are 'auto' or no data has been uploaded.
clim_normalized(t) ==
    IF t.clim \in {Auto, NoClim}
    THEN RuntimeError("auto")
    ELSE IF t.kind = "cpu"
    THEN IF t.data_limits = NoClim THEN RuntimeError("no data")
         ELSE IF t.data_limits.lo = t.data_limits.hi THEN Pair(Frac(0, 1), Inf)
         ELSE LET l == t.data_limits.lo
                  h == t.data_limits.hi
              IN  Pair(Frac(t.clim.lo - l, h - l), Frac(t.clim.hi - l, h - l))
    ELSE IF t.data_dtype = None THEN RuntimeError("no data")
         ELSE IF t.clim.lo = t.clim.hi THEN Pair(Frac(t.clim.lo, 1), Inf)
         ELSE LET den == IF t.data_dtype = "uint8" THEN 255 ELSE 1
              IN  Pair(Frac(t.clim.lo, den), Frac(t.clim.hi, den))

IsError(x) == "type" \in DOMAIN x

\* scale_and_set_data: resolves 'auto' limits from the data, uploads, and (GPU
\* scaling) re-picks the storage format.
scale_and_set_data(t, data) ==
    LET clim == IF t.clim = Auto THEN Pair(data.lo, data.hi) ELSE t.clim
    IN  [t EXCEPT !.clim = clim,
                  !.data_limits = IF t.kind = "cpu" THEN clim ELSE @,
                  !.data_dtype = data.dtype,
                  !.internalformat =
                      IF t.kind = "cpu" THEN @ ELSE InternalFormat(data),
                  !.shape = data.shape]

\* get_colormap(name) and Colormap.texture_lut()
get_colormap(cmap) == [name |-> cmap]
texture_lut(cmap) == <<"lut", cmap.name>>

\* ------------------------------------------------------------- ImageVisual
\* An operation maps the visual s = [image, texture, shared_program, views] to
\* the visual it leaves behind and the exception it raised, if any.
Ok(s) == [s |-> s, err |-> NoErr]
Raise(s, e) == [s |-> s, err |-> e]

NoTransform == [none |-> TRUE]
NoBuffer == [none |-> TRUE]

InterpolationError ==
    [type |-> "ValueError", msg |-> "interpolation must be one of",
     names |-> _interpolation_names]

\* The four dirty flags of the image.
Flags(s) ==
    [interpolation |-> s.image._need_interpolation_update,
     texture |-> s.image._need_texture_upload,
     color_transform |-> s.image._need_colortransform_update,
     vertex |-> s.image._need_vertex_update]

\* _init_texture creating the texture with 'nearest' filtering for every mode.
_init_texture_nearest(interpolation, data, texture_format) ==
    IF texture_format = None
    THEN ScaledTexture2D("cpu", data, "nearest")
    ELSE ScaledTexture2D("gpu", data, "nearest")

\* ImageVisual._init_texture
_init_texture(interpolation, data, texture_format) ==
    LET texture_interpolation ==
            IF interpolation = "bilinear" THEN "linear" ELSE "nearest"
    IN  IF texture_format = None
        THEN ScaledTexture2D("cpu", data, texture_interpolation)
        ELSE ScaledTexture2D("gpu", data, texture_interpolation)

\* ImageVisual._init_view, on a view whose transform is linear or not
_init_view(linear) ==
    [_need_method_update |-> TRUE,
     _method_used |-> None,
     Linear |-> linear,
     view_program |-> [method |-> None, a_position |-> None,
                       a_texcoord |-> None, texture2D_LUT |-> <<>>,
                       transform |-> None]]

\* ImageVisual.view
view(s, linear) == Ok([s EXCEPT !.views = Append(@, _init_view(linear))])

\* ImageVisual.size
size(s) == Reversed(shape2(s.image._data))

\* shape_changed comparing the whole shape, not its first two dimensions.
shape_changed_whole(s, data) ==
    s.image._data = NoData \/ s.image._data.shape # data.shape

\* The test of set_data that decides a vertex rebuild.
shape_changed(s, data) ==
    s.image._data = NoData \/ shape2(s.image._data) # shape2(data)

\* ImageVisual.set_data
set_data(s, image_) ==
    LET data == IF should_cast_to_f32(image_.dtype)
                THEN [image_ EXCEPT !.dtype = "float32"] ELSE image_
    IN  IF ~check_data_format(s.texture, data)
        THEN Raise(s, ValueError("unsupported data"))
        ELSE Ok([s EXCEPT
                   !.image._need_vertex_update = @ \/ shape_changed(s, data),
                   !.image._data = data,
                   !.image._need_texture_upload = TRUE])

\* ImageVisual._update_colortransform_clim
_update_colortransform_clim(s) ==
    IF s.image._need_colortransform_update THEN Ok(s)
    ELSE LET norm_clims == clim_normalized(s.texture)
         IN  IF IsError(norm_clims) THEN Ok(s)
             ELSE IF s.shared_program.color_transform = NoTransform
             THEN Raise(s, KeyError("color_transform"))
             ELSE Ok([s EXCEPT !.shared_program.color_transform.clim = norm_clims])

\* ImageVisual.clim (setter)
clim_setter(s, clim) ==
    LET r == set_clim(s.texture, clim)
    IN  IF r.err # NoErr THEN Raise(s, r.err)
        ELSE _update_colortransform_clim(
                [s EXCEPT !.texture = r.t,
                          !.image._need_texture_upload = @ \/ r.need])

\* ImageVisual.cmap (setter)
cmap_setter(s, cmap) ==
    Ok([s EXCEPT !.image._cmap = get_colormap(cmap),
                 !.image._need_colortransform_update = TRUE])

\* The gamma setter storing the value before it validates it.
gamma_setter_stores_first(s, value) ==
    LET s1 == [s EXCEPT !.image._gamma = value]
    IN  IF value <= 0 THEN Raise(s1, ValueError("gamma must be > 0"))
        ELSE IF ~s1.image._need_colortransform_update
        THEN Ok([s1 EXCEPT !.shared_program.color_transform.gamma =
                              s1.image._gamma])
        ELSE Ok(s1)

\* The gamma setter rejecting only negative values.
gamma_setter_accepts_zero(s, value) ==
    IF value < 0 THEN Raise(s, ValueError("gamma must be > 0"))
    ELSE LET s1 == [s EXCEPT !.image._gamma = value]
         IN  IF ~s1.image._need_colortransform_update
             THEN Ok([s1 EXCEPT !.shared_program.color_transform.gamma =
                                   s1.image._gamma])
             ELSE Ok(s1)

\* The gamma setter without its in-place update of the installed transform.
gamma_setter_no_shortcut(s, value) ==
    IF value <= 0 THEN Raise(s, ValueError("gamma must be > 0"))
    ELSE Ok([s EXCEPT !.image._gamma = value])

\* ImageVisual.gamma (setter)
gamma_setter(s, value) ==
    IF value <= 0 THEN Raise(s, ValueError("gamma must be > 0"))
    ELSE LET s1 == [s EXCEPT !.image._gamma = value]
         IN  IF ~s1.image._need_colortransform_update
             THEN IF s1.shared_program.color_transform = NoTransform
                  THEN Raise(s1, KeyError("color_transform"))
                  ELSE Ok([s1 EXCEPT !.shared_program.color_transform.gamma =
                                        s1.image._gamma])
             ELSE Ok(s1)

\* ImageVisual.method (setter)
method_setter(s, m) ==
    IF s.image._method # m
    THEN Ok([s EXCEPT !.image._method = m, !.image._need_vertex_update = TRUE])
    ELSE Ok(s)

\* ImageVisual.interpolation (setter)
interpolation_setter(s, i) ==
    IF i \notin Range(_interpolation_names) THEN Raise(s, InterpolationError)
    ELSE IF s.image._interpolation # i
    THEN Ok([s EXCEPT !.image._interpolation = i,
                      !.image._need_interpolation_update = TRUE])
    ELSE Ok(s)

\* ---------------------------------------------------------------- builders
\* _build_interpolation binding the kernel and the shape for 'nearest' too.
_build_interpolation_always_kernel(s) ==
    LET interpolation == s.image._interpolation
        fn == _interpolation_fun[interpolation]
        texture_interpolation ==
            IF interpolation = "bilinear" THEN "linear" ELSE "nearest"
        software == interpolation # "bilinear"
    IN  Ok([s EXCEPT
              !.image._data_lookup_fn = fn,
              !.shared_program.get_data = fn,
              !.shared_program.u_kernel =
                  IF software THEN "_kerneltex" ELSE @,
              !.image._functions[fn].shape =
                  IF software THEN size(s) ELSE @,
              !.texture.interpolation = texture_interpolation,
              !.image._functions[fn].texture = "_texture",
              !.image._need_interpolation_update = FALSE])

\* ImageVisual._build_interpolation
_build_interpolation(s) ==
    LET interpolation == s.image._interpolation
        fn == _interpolation_fun[interpolation]
        texture_interpolation ==
            IF interpolation = "bilinear" THEN "linear" ELSE "nearest"
        software == interpolation \notin {"bilinear", "nearest"}
    IN  Ok([s EXCEPT
              !.image._data_lookup_fn = fn,
              !.shared_program.get_data = fn,
              !.shared_program.u_kernel =
                  IF software THEN "_kerneltex" ELSE @,
              !.image._functions[fn].shape =
                  IF software THEN size(s) ELSE @,
              !.texture.interpolation = texture_interpolation,
              !.image._functions[fn].texture = "_texture",
              !.image._need_interpolation_update = FALSE])

\* _build_texture forgetting to clear its flag when the format changed.
_build_texture_keeps_flag(s) ==
    LET pre_internalformat == s.texture.internalformat
        t == scale_and_set_data(s.texture, s.image._data)
        s1 == [s EXCEPT !.texture = t]
    IN  IF t.internalformat # pre_internalformat
        THEN Ok([s1 EXCEPT !.image._need_colortransform_update = TRUE])
        ELSE IF s1.shared_program.color_transform = NoTransform
        THEN Ok([s1 EXCEPT !.image._need_texture_upload = FALSE])
        ELSE Ok([s1 EXCEPT
                   !.shared_program.color_transform.clim = clim_normalized(t),
                   !.image._need_texture_upload = FALSE])

\* _build_texture marking the color transform dirty on every upload.
_build_texture_always_marks(s) ==
    LET t == scale_and_set_data(s.texture, s.image._data)
    IN  Ok([s EXCEPT !.texture = t,
                     !.image._need_colortransform_update = TRUE,
                     !.image._need_texture_upload = FALSE])

\* ImageVisual._build_texture
_build_texture(s) ==
    LET pre_internalformat == s.texture.internalformat
        t == scale_and_set_data(s.texture, s.image._data)
        s1 == [s EXCEPT !.texture = t]
    IN  IF t.internalformat # pre_internalformat
        THEN Ok([s1 EXCEPT !.image._need_colortransform_update = TRUE,
                           !.image._need_texture_upload = FALSE])
        ELSE IF IsError(clim_normalized(t))
        THEN Raise(s1, clim_normalized(t))
        ELSE IF s1.shared_program.color_transform = NoTransform
        THEN Ok([s1 EXCEPT !.image._need_texture_upload = FALSE])
        ELSE Ok([s1 EXCEPT
                   !.shared_program.color_transform.clim = clim_normalized(t),
                   !.image._need_texture_upload = FALSE])

\* ImageVisual._build_color_transform: the function chain a rebuild binds
_build_color_transform(s) ==
    IF Len(s.image._data.shape) = 2 \/ s.image._data.shape[3] = 1
    THEN [chain |-> <<"red_to_luminance", "clim_float", "gamma_float",
                      s.image._cmap.name>>,
          clim |-> clim_normalized(s.texture),
          gamma |-> s.image._gamma]
    ELSE [chain |-> <<"null_color_transform", "clim", "gamma">>,
          clim |-> clim_normalized(s.texture),
          gamma |-> s.image._gamma]

\* The color-transform step clearing the flag without installing a transform.
_install_color_transform_flag_only(s, v) ==
    Ok([s EXCEPT !.image._need_colortransform_update = FALSE])

\* The color-transform step of ImageVisual._prepare_draw, for view v
_install_color_transform(s, v) ==
    IF IsError(clim_normalized(s.texture))
    THEN Raise(s, clim_normalized(s.texture))
    ELSE Ok([s EXCEPT
               !.shared_program.color_transform = _build_color_transform(s),
               !.image._need_colortransform_update = FALSE,
               !.views[v].view_program.texture2D_LUT =
                   texture_lut(s.image._cmap)])

\* ImageVisual._build_vertex_data: the two buffers hold rows*cols*6 vertices,
\* the positions scaled by the image size.
_build_vertex_data(s) ==
    LET grid == s.image._grid
    IN  Ok([s EXCEPT
              !.image._subdiv_position =
                  [n |-> grid[2] * grid[1] * 6, scale |-> size(s)],
              !.image._subdiv_texcoord =
                  [n |-> grid[2] * grid[1] * 6, scale |-> <<1, 1>>],
              !.image._need_vertex_update = FALSE])

\* ImageVisual._prepare_transforms: which shader stage gets the view's
\* transform.
_prepare_transforms(s, v) ==
    [s EXCEPT !.views[v].view_program.transform =
                 IF s.views[v]._method_used = "subdivide" THEN "vert" ELSE "frag"]

\* _update_method deciding 'auto' by the transform of the visual itself, not
\* by the transform of the view it configures.
_update_method_global(s, v) ==
    LET method == IF s.image._method = "auto"
                  THEN IF s.views[1].Linear THEN "subdivide" ELSE "impostor"
                  ELSE s.image._method
        s1 == [s EXCEPT !.views[v]._method_used = method]
    IN  IF method \notin {"subdivide", "impostor"}
        THEN Raise(s1, ValueError("Unknown image draw method"))
        ELSE LET s2 == [s1 EXCEPT
                          !.views[v].view_program.method =
                              IF method = "subdivide" THEN "0" ELSE "1",
                          !.views[v].view_program.a_position =
                              IF method = "subdivide" THEN "_subdiv_position"
                              ELSE "_impostor_coords",
                          !.views[v].view_program.a_texcoord =
                              IF method = "subdivide" THEN "_subdiv_texcoord"
                              ELSE "_impostor_coords",
                          !.shared_program.image_size = size(s),
                          !.views[v]._need_method_update = FALSE]
             IN  Ok(_prepare_transforms(s2, v))

\* ImageVisual._update_method
_update_method(s, v) ==
    LET method == IF s.image._method = "auto"
                  THEN IF s.views[v].Linear THEN "subdivide" ELSE "impostor"
                  ELSE s.image._method
        s1 == [s EXCEPT !.views[v]._method_used = method]
    IN  IF method \notin {"subdivide", "impostor"}
        THEN Raise(s1, ValueError("Unknown image draw method"))
        ELSE LET s2 == [s1 EXCEPT
                          !.views[v].view_program.method =
                              IF method = "subdivide" THEN "0" ELSE "1",
                          !.views[v].view_program.a_position =
                              IF method = "subdivide" THEN "_subdiv_position"
                              ELSE "_impostor_coords",
                          !.views[v].view_program.a_texcoord =
                              IF method = "subdivide" THEN "_subdiv_texcoord"
                              ELSE "_impostor_coords",
                          !.shared_program.image_size = size(s),
                          !.views[v]._need_method_update = FALSE]
             IN  Ok(_prepare_transforms(s2, v))

\* ------------------------------------------------------------ the scheduler
\* The condition _prepare_draw tests before a builder.
Dirty(s, b, v) ==
    CASE b = "interpolation" -> s.image._need_interpolation_update
      [] b = "texture" -> s.image._need_texture_upload
      [] b = "color_transform" -> s.image._need_colortransform_update
      [] b = "vertex" -> s.image._need_vertex_update
      [] b = "method" -> s.views[v]._need_method_update

Build(s, b, v) ==
    CASE b = "interpolation" -> _build_interpolation(s)
      [] b = "texture" -> _build_texture(s)
      [] b = "color_transform" -> _install_color_transform(s, v)
      [] b = "vertex" -> _build_vertex_data(s)
      [] b = "method" -> _update_method(s, v)

\* One `if flag: build()` statement of _prepare_draw. r carries the visual, the
\* exception raised so far and the builders run so far, each with the flags
\* before and after it.
RunIf(r, b, v) ==
    IF r.err # NoErr \/ ~Dirty(r.s, b, v) THEN r
    ELSE LET o == Build(r.s, b, v)
         IN  [s |-> o.s, err |-> o.err, ret |-> r.ret,
              steps |-> Append(r.steps,
                  [builder |-> b, pre |-> Flags(r.s), post |-> Flags(o.s)])]

\* _prepare_draw building the vertex data before the color transform.
_prepare_draw_vertex_first(s, v) ==
    IF s.image._data = NoData
    THEN [s |-> s, err |-> NoErr, ret |-> "False", steps |-> <<>>]
    ELSE LET r0 == [s |-> s, err |-> NoErr, ret |-> None, steps |-> <<>>]
             r1 == RunIf(r0, "interpolation", v)
             r2 == RunIf(r1, "texture", v)
             r3 == RunIf(r2, "vertex", v)
             r4 == RunIf(r3, "color_transform", v)
         IN  RunIf(r4, "method", v)

\* _prepare_draw testing for data only after the interpolation flag.
_prepare_draw_late_check(s, v) ==
    IF s.image._data = NoData
    THEN [s |-> [s EXCEPT !.image._need_interpolation_update = FALSE],
          err |-> NoErr, ret |-> "False", steps |-> <<>>]
    ELSE LET r0 == [s |-> s, err |-> NoErr, ret |-> None, steps |-> <<>>]
             r1 == RunIf(r0, "interpolation", v)
             r2 == RunIf(r1, "texture", v)
             r3 == RunIf(r2, "color_transform", v)
             r4 == RunIf(r3, "vertex", v)
         IN  RunIf(r4, "method", v)

\* ImageVisual._prepare_draw
_prepare_draw(s, v) ==
    IF s.image._data = NoData
    THEN [s |-> s, err |-> NoErr, ret |-> "False", steps |-> <<>>]
    ELSE LET r0 == [s |-> s, err |-> NoErr, ret |-> None, steps |-> <<>>]
             r1 == RunIf(r0, "interpolation", v)
             r2 == RunIf(r1, "texture", v)
             r3 == RunIf(r2, "color_transform", v)
             r4 == RunIf(r3, "vertex", v)
         IN  RunIf(r4, "method", v)

\* ------------------------------------------------------------- construction
Unset == [unset |-> TRUE]

\* ImageVisual.__init__
__init__(data, method, grid, cmap, clim, gamma, interpolation, texture_format, linear) ==
    LET early == [image |-> [_data |-> NoData, _interpolation |-> interpolation],
                  texture |-> Unset, shared_program |-> Unset, views |-> <<>>]
        s0 == [image |->
                  [_data |-> NoData,
                   _interpolation |-> interpolation,
                   _method |-> method,
                   _grid |-> grid,
                   _need_texture_upload |-> TRUE,
                   _need_vertex_update |-> TRUE,
                   _need_colortransform_update |-> TRUE,
                   _need_interpolation_update |-> TRUE,
                   _subdiv_position |-> NoBuffer,
                   _subdiv_texcoord |-> NoBuffer,
                   _data_lookup_fn |-> Unset,
                   _functions |-> [f \in FnObjects |->
                                      [shape |-> <<>>, texture |-> None]],
                   _cmap |-> Unset,
                   _gamma |-> Unset],
               texture |-> _init_texture(interpolation, data, texture_format),
               shared_program |->
                  [get_data |-> Unset, color_transform |-> NoTransform,
                   u_kernel |-> None, image_size |-> <<>>],
               views |-> <<_init_view(linear)>>]
        r1 == clim_setter(s0, clim)
        r2 == cmap_setter(r1.s, cmap)
        r3 == gamma_setter(r2.s, gamma)
    IN  IF interpolation \notin Range(_interpolation_names)
        THEN Raise(early, InterpolationError)
        ELSE IF data # NoData /\ ~check_data_format(Unset, data)
        THEN Raise(early, ValueError("unsupported data"))
        ELSE IF r1.err # NoErr THEN r1
        ELSE IF r3.err # NoErr THEN r3
        ELSE IF data # NoData THEN set_data(r3.s, data)
        ELSE r3

\* ------------------------------------------------------------------ actions
\* The visual as one value, and the step that stores an operation's outcome.
St == [image |-> image, texture |-> texture,
       shared_program |-> shared_program, views |-> views]

\* An object that has not been created in the run at hand.
Absent == [absent |-> TRUE]

Commit(r, op, v, ret, st) ==
    /\ UNCHANGED <<molecule, renderer>>
    /\ image' = r.s.image
    /\ texture' = r.s.texture
    /\ shared_program' = r.s.shared_program
    /\ views' = r.s.views
    /\ lastOp' = [op |-> op, view |-> v, ret |-> ret, err |-> r.err]
    /\ steps' = st

\* A constructor that raised leaves no visual to call.
Constructed == ~(lastOp.op = "__init__" /\ lastOp.err # NoErr)

\* The values callers pass in one specification: U.images, U.clims, U.cmaps,
\* U.gammas, U.methods, U.interpolations, U.formats, U.linear.
InitOver(U) ==
    \E data \in U.images \cup {NoData}, method \in U.methods,
       grid \in GridInputs, cmap \in U.cmaps, clim \in U.clims,
       gamma \in U.gammas, interpolation \in U.interpolations,
       texture_format \in U.formats, linear \in U.linear :
        LET r == __init__(data, method, grid, cmap, clim, gamma,
                          interpolation, texture_format, linear)
        IN  /\ image = r.s.image
            /\ texture = r.s.texture
            /\ shared_program = r.s.shared_program
            /\ views = r.s.views
            /\ lastOp = [op |-> "__init__", view |-> 0, ret |-> None,
                         err |-> r.err]
            /\ steps = <<>>
            /\ molecule = Absent
            /\ renderer = Absent

SetData(im) ==
    /\ Constructed
    /\ Commit(set_data(St, im), "call", 0, None, <<>>)

SetClim(clim) ==
    /\ Constructed
    /\ Commit(clim_setter(St, clim), "call", 0, None, <<>>)

SetCmap(cmap) ==
    /\ Constructed
    /\ Commit(cmap_setter(St, cmap), "call", 0, None, <<>>)

SetGamma(value) ==
    /\ Constructed
    /\ Commit(gamma_setter(St, value), "call", 0, None, <<>>)

SetMethod(m) ==
    /\ Constructed
    /\ Commit(method_setter(St, m), "call", 0, None, <<>>)

SetInterpolation(i) ==
    /\ Constructed
    /\ Commit(interpolation_setter(St, i), "call", 0, None, <<>>)

PrepareDraw(v) ==
    /\ Constructed
    /\ LET r == _prepare_draw(St, v)
       IN  Commit(r, "draw", v, r.ret, r.steps)

\* ImageVisual.view(): one more view of the image, with a transform that is
\* linear or not.
AddView(linear) ==
    /\ Constructed
    /\ Len(views) < MaxViews
    /\ Commit(view(St, linear), "view", Len(views) + 1, None, <<>>)

NextOver(U) ==
    \/ \E im \in U.images : SetData(im)
    \/ \E clim \in U.clims : SetClim(clim)
    \/ \E cmap \in U.cmaps : SetCmap(cmap)
    \/ \E value \in U.gammas : SetGamma(value)
    \/ \E m \in U.methods : SetMethod(m)
    \/ \E i \in U.interpolations : SetInterpolation(i)
    \/ \E v \in DOMAIN views : PrepareDraw(v)

\* The scheduler: every valid array and both texture kinds, the methods and
\* interpolation modes that take different paths, one value of the rest.
SchedulerInputs ==
    [images |-> {ImA, ImB, ImC},
     clims |-> {Auto},
     cmaps |-> {"viridis"},
     gammas |-> {1},
     methods |-> {"auto", "impostor"},
     interpolations |-> {"nearest", "bicubic"},
     formats |-> TextureFormatInputs,
     linear |-> {TRUE}]

\* The error paths: every invalid input beside a valid one.
ErrorInputs ==
    [images |-> {ImA, ImBad},
     clims |-> {Auto, BadClim},
     cmaps |-> {"viridis"},
     gammas |-> -1 .. MaxGamma,
     methods |-> MethodInputs,
     interpolations |-> InterpolationInputs,
     formats |-> {None},
     linear |-> BOOLEAN]

\* The color transform: every clim, gamma and colormap, luminance and RGB data.
ColorInputs ==
    [images |-> {ImA, ImB},
     clims |-> ClimInputs,
     cmaps |-> CmapInputs,
     gammas |-> GammaInputs,
     methods |-> {"auto"},
     interpolations |-> {"nearest"},
     formats |-> TextureFormatInputs,
     linear |-> {TRUE}]

\* Several views of one image: both kinds of transform, 'auto' and a fixed
\* method, one value of the rest.
ViewInputs ==
    [images |-> {ImA},
     clims |-> {Auto},
     cmaps |-> {"viridis"},
     gammas |-> {1},
     methods |-> {"auto", "subdivide"},
     interpolations |-> {"nearest"},
     formats |-> {None},
     linear |-> BOOLEAN]

\* Several views of one image under changing colormaps.
LutInputs ==
    [images |-> {ImA},
     clims |-> {Auto},
     cmaps |-> CmapInputs,
     gammas |-> {1},
     methods |-> {"auto"},
     interpolations |-> {"nearest"},
     formats |-> {None},
     linear |-> {TRUE}]

\* The operations of NextOver and the creation of views.
NextViews(U) ==
    \/ NextOver(U)
    \/ \E linear \in U.linear : AddView(linear)

\* Each specification is the same visual under one set of inputs.
Spec == InitOver(SchedulerInputs) /\ [][NextOver(SchedulerInputs)]_vars
SpecErrors == InitOver(ErrorInputs) /\ [][NextOver(ErrorInputs)]_vars
SpecColor == InitOver(ColorInputs) /\ [][NextOver(ColorInputs)]_vars
SpecViews == InitOver(ViewInputs) /\ [][NextViews(ViewInputs)]_vars
SpecLut == InitOver(LutInputs) /\ [][NextViews(LutInputs)]_vars
\* ---------------------------------------------------------- MoleculeVisual
\* What callers pass as atoms: numpy arrays of n rows of 3 coordinates, and
\* plain lists of n rows.
AtomArrays ==
    {[ndarray |-> TRUE, shape |-> <<n, 3>>, dtype |-> d] :
        n \in 0 .. MaxAtoms, d \in {"float32", "float64", "uint8"}}
AtomLists == {[ndarray |-> FALSE, rows |-> n] : n \in 0 .. MaxAtoms}
AtomInputs == AtomArrays \cup AtomLists

\* len(atoms)
len(atoms) == IF atoms.ndarray THEN atoms.shape[1] ELSE atoms.rows

\* gloo.Texture1D(data): a texture of the data's shape and dtype.
Texture1D(atoms) ==
    IF atoms.ndarray THEN [shape |-> atoms.shape, dtype |-> atoms.dtype]
    ELSE [shape |-> <<atoms.rows, 3>>, dtype |-> "float32"]

\* gloo.Texture1D.set_data(data) without an offset: the texture takes the
\* shape of the data.
Texture1D_set_data(t, atoms) ==
    [t EXCEPT !.shape = atoms.shape, !.dtype = atoms.dtype]

\* MoleculeVisual.set_data
Molecule_set_data(m, atoms_) ==
    IF ~atoms_.ndarray
    THEN Raise(m, ValueError("atomsume visual needs a numpy array."))
    ELSE LET atoms == IF should_cast_to_f32(atoms_.dtype)
                      THEN [atoms_ EXCEPT !.dtype = "float32"] ELSE atoms_
         IN  Ok([m EXCEPT !._atoms = Texture1D_set_data(@, atoms)])

\* MoleculeVisual.__init__
Molecule__init__(atoms) ==
    LET m == [_atoms |-> Texture1D(atoms),
              shared_program |-> [u_atoms |-> "_atoms",
                                  u_n_atoms |-> len(atoms),
                                  a_position |-> "_vertices"],
              _draw_mode |-> "triangle_strip"]
    IN  Molecule_set_data(m, atoms)

\* ---------------------------------------------------------------- Renderer
\* canvas.size and the size argument of resize: (width, height).
SizeInputs == (1 .. MaxSize) \X (1 .. MaxSize)

\* gloo.Texture2D(shape) / gloo.RenderBuffer(shape), and their resize(shape).
Buffer(shape) == [shape |-> shape]
Buffer_resize(b, shape) == [b EXCEPT !.shape = shape]

\* size[::-1] and shape[2:]
reversed(sq) == [i \in DOMAIN sq |-> sq[Len(sq) + 1 - i]]
channels(shape) == SubSeq(shape, 3, Len(shape))

\* Renderer.resize giving the normal-depth texture the size as passed, not
\* reversed.
Renderer_resize_unreversed(r, size_) ==
    LET height_width == reversed(size_)
        channels_ == channels(r.color_texture.shape)
    IN  [r EXCEPT
           !.depth_buffer = Buffer_resize(@, height_width),
           !.color_texture = Buffer_resize(@, height_width \o channels_),
           !.normal_depth_texture = Buffer_resize(@, size_ \o channels_)]

\* Renderer.resize
Renderer_resize(r, size_) ==
    LET height_width == reversed(size_)
        channels_ == channels(r.color_texture.shape)
    IN  [r EXCEPT
           !.depth_buffer = Buffer_resize(@, height_width),
           !.color_texture = Buffer_resize(@, height_width \o channels_),
           !.normal_depth_texture =
               Buffer_resize(@, height_width \o channels_)]

\* Renderer.__init__, for a canvas of the given size (resize neither reads
\* nor writes the canvas it keeps)
Renderer__init__(canvas_size) ==
    LET width == canvas_size[1]
        height == canvas_size[2]
    IN  [canvas |-> [size |-> canvas_size],
         color_texture |-> Buffer(<<height, width, 4>>),
         normal_depth_texture |-> Buffer(<<height, width, 4>>),
         depth_buffer |-> Buffer(<<height, width>>),
         framebuffer |-> [color |-> <<"color_texture", "normal_depth_texture">>,
                          depth |-> "depth_buffer"]]

\* ------------------------------------------------------- the scene's steps
\* A canvas with a MoleculeVisual and a Renderer; no image in this scene.
InitScene ==
    \E atoms \in AtomInputs, canvas_size \in SizeInputs :
        LET r == Molecule__init__(atoms)
        IN  /\ molecule = IF r.err = NoErr THEN r.s ELSE Absent
            /\ renderer = Renderer__init__(canvas_size)
            /\ lastOp = [op |-> "Molecule.__init__", view |-> 0, ret |-> None,
                         err |-> r.err]
            /\ image = Absent
            /\ texture = Absent
            /\ shared_program = Absent
            /\ views = <<>>
            /\ steps = <<>>

MoleculeSetData(atoms) ==
    /\ molecule # Absent
    /\ LET r == Molecule_set_data(molecule, atoms)
       IN  /\ molecule' = r.s
           /\ lastOp' = [op |-> "Molecule.set_data", view |-> 0, ret |-> None,
                         err |-> r.err]
    /\ UNCHANGED <<image, texture, shared_program, views, steps, renderer>>

RendererResize(size_) ==
    /\ renderer' = Renderer_resize(renderer, size_)
    /\ lastOp' = [op |-> "Renderer.resize", view |-> 0, ret |-> None,
                  err |-> NoErr]
    /\ UNCHANGED <<image, texture, shared_program, views, steps, molecule>>

NextScene ==
    \/ \E atoms \in AtomInputs : MoleculeSetData(atoms)
    \/ \E size_ \in SizeInputs : RendererResize(size_)

SpecScene == InitScene /\ [][NextScene]_vars

\* ------------------------------------------------------------------ claims
FlagNames == {"interpolation", "texture", "color_transform", "vertex"}

\* A draw preparation that ran to its end with data set.
DrawDone == lastOp.op = "draw" /\ lastOp.ret = None /\ lastOp.err = NoErr

\* Whether builder b is among the builders the last draw ran.
Ran(st, b) == \E i \in DOMAIN st : st[i].builder = b

\* The order the specification gives the builders.
FixedOrder == <<"interpolation", "texture", "color_transform", "vertex", "method">>
Pos(b) == CHOOSE i \in DOMAIN FixedOrder : FixedOrder[i] = b

\* C1: within one draw preparation the builders run in the order
\* interpolation, texture upload, color transform, vertex geometry, per-view
\* method: a builder runs only with its flag dirty, never before one that
\* precedes it in this order, and a flag dirty when the draw starts has its
\* builder run in a draw that completes.
C1_BuildersRunInFixedOrder ==
    lastOp.op = "draw" =>
        /\ \A i, j \in DOMAIN steps :
              i < j => Pos(steps[i].builder) < Pos(steps[j].builder)
        /\ \A i \in DOMAIN steps :
              steps[i].builder \in FlagNames => steps[i].pre[steps[i].builder]
        /\ (DrawDone /\ steps # <<>>) =>
              \A f \in FlagNames : steps[1].pre[f] => Ran(steps, f)

\* C1 witness: a draw that ran all five builders.
C1_Witness == DrawDone /\ Len(steps) = 5

\* C2 as stated: every builder clears its own flag and no builder sets any
\* flag.
C2_NoBuilderSetsAFlag ==
    \A i \in DOMAIN steps :
        /\ steps[i].builder \in FlagNames => ~steps[i].post[steps[i].builder]
        /\ \A f \in FlagNames : steps[i].post[f] => steps[i].pre[f]

\* C2 as amended: every builder clears its own flag and leaves the other
\* flags as they were, except that the texture builder may set the
\* color-transform flag; the color-transform step of the same draw clears it
\* again, so all four flags are false after every draw that completes.
C2_OnlyTextureBuilderSetsColorFlag ==
    /\ \A i \in DOMAIN steps :
          /\ steps[i].builder \in FlagNames => ~steps[i].post[steps[i].builder]
          /\ \A f \in FlagNames \ {steps[i].builder} :
                steps[i].post[f] # steps[i].pre[f] =>
                    /\ steps[i].builder = "texture"
                    /\ f = "color_transform"
                    /\ steps[i].post[f]
    /\ DrawDone => \A f \in FlagNames : ~Flags(St)[f]

\* C2 witness: a completed draw whose texture builder set the color-transform
\* flag that an earlier draw had cleared.
C2_Witness ==
    /\ DrawDone
    /\ \E i \in DOMAIN steps :
          /\ steps[i].builder = "texture"
          /\ ~steps[i].pre.color_transform
          /\ steps[i].post.color_transform

\* C3: with no data set, a draw preparation changes nothing of the visual,
\* runs no builder and returns False.
C3_NoDataDrawIsNoOp ==
    [][((\E v \in DOMAIN views : PrepareDraw(v)) /\ image._data = NoData) =>
          /\ UNCHANGED <<image, texture, shared_program, views>>
          /\ steps' = <<>>
          /\ lastOp'.ret = "False"
          /\ lastOp'.err = NoErr]_vars

\* C3 witness: a draw on a visual without data, with a software interpolation
\* mode and an explicit method configured.
C3_Witness ==
    /\ lastOp.op = "draw"
    /\ lastOp.ret = "False"
    /\ image._data = NoData
    /\ image._interpolation = "bicubic"
    /\ image._method = "subdivide"

\* C4: a set_data call that returns marks texture-upload dirty, and leaves
\* vertex-geometry dirty exactly when it was dirty already, there was no data
\* before, or the first two dimensions differ from the previous array's.
C4_SetDataMarksFlags ==
    [][\A im \in Images :
          (SetData(im) /\ lastOp'.err = NoErr) =>
              /\ image'._need_texture_upload
              /\ image'._need_vertex_update <=>
                    \/ image._need_vertex_update
                    \/ image._data = NoData
                    \/ shape2(image._data) # shape2(im)]_vars

\* C4 witness: after a draw, set_data replaced the uploaded array by one of
\* the same height and width (another band count): texture-upload is dirty,
\* vertex-geometry is not.
C4_Witness ==
    /\ lastOp.op = "call"
    /\ image._data # NoData
    /\ image._subdiv_position # NoBuffer
    /\ Len(texture.shape) >= 2
    /\ texture.shape # image._data.shape
    /\ SubSeq(texture.shape, 1, 2) = shape2(image._data)
    /\ image._need_texture_upload
    /\ ~image._need_vertex_update

\* C5 as stated: once the vertex buffers are built, a draw rebuilds them only
\* if the image's height and width differ from those of the previous build.
C5_VertexRebuildOnlyOnResize ==
    [][((\E v \in DOMAIN views : PrepareDraw(v))
          /\ image._subdiv_position # NoBuffer
          /\ Ran(steps', "vertex")) =>
              image._subdiv_position.scale # image'._subdiv_position.scale]_vars

\* C5 failing input: a draw rebuilt the vertex buffers for an image of the
\* size they were built for (the method setter marked them dirty).
C5_RebuiltSameSize ==
    /\ DrawDone
    /\ steps # <<>>
    /\ steps[1].builder = "vertex"
    /\ image._subdiv_position.scale = size(St)

\* C6 as stated: no draw preparation raises an error; every invalid
\* configuration value was rejected by the call that supplied it.
C6_NoErrorAtDrawTime == lastOp.op = "draw" => lastOp.err = NoErr

\* C7: a mutator call that raises leaves the image, the texture, the shared
\* program and the views as they were.
C7_FailedMutatorChangesNothing ==
    [][(lastOp'.op = "call" /\ lastOp'.err # NoErr) =>
          UNCHANGED <<image, texture, shared_program, views>>]_vars

\* C7 witness: set_data rejected an array the texture cannot hold, on a visual
\* that holds data and has been drawn.
C7_Witness ==
    /\ lastOp.op = "call"
    /\ lastOp.err = ValueError("unsupported data")
    /\ image._data = ImA
    /\ shared_program.color_transform # NoTransform

\* The registry's names, lower-cased.
LoweredRegistry == {lower(n) : n \in Range(load_spatial_filters)}

IsSortedNames(sq) ==
    \A i, j \in DOMAIN sq : i < j => StrLess(sq[i], sq[j])

\* C8 as stated: the constructor and the setter accept a name exactly when
\* it matches a registry name without regard to case; any other name raises a
\* ValueError that lists the valid names in alphabetical order.
C8_CaseInsensitiveMatch ==
    /\ [](lastOp.op = "__init__" =>
            (lastOp.err = InterpolationError <=>
                lower(image._interpolation) \notin LoweredRegistry))
    /\ [][\A i \in InterpolationInputs :
            SetInterpolation(i) =>
                /\ lastOp'.err = NoErr <=> lower(i) \in LoweredRegistry
                /\ lastOp'.err # NoErr =>
                      /\ lastOp'.err.type = "ValueError"
                      /\ Range(lastOp'.err.names) = LoweredRegistry
                      /\ IsSortedNames(lastOp'.err.names)]_vars

\* C8 as amended: the constructor and the setter accept a name exactly when
\* it equals the lower-cased form of a registry name, the name itself being
\* compared as given; any other name raises a ValueError that lists the
\* lower-cased registry names in alphabetical order.
C8_ExactMatchOfLoweredNames ==
    /\ [](lastOp.op = "__init__" =>
            (lastOp.err = InterpolationError <=>
                image._interpolation \notin LoweredRegistry))
    /\ [][\A i \in InterpolationInputs :
            SetInterpolation(i) =>
                /\ lastOp'.err = NoErr <=> i \in LoweredRegistry
                /\ lastOp'.err # NoErr =>
                      /\ lastOp'.err.type = "ValueError"
                      /\ Range(lastOp'.err.names) = LoweredRegistry
                      /\ IsSortedNames(lastOp'.err.names)
                /\ lastOp'.err = NoErr => image'._interpolation = i]_vars

\* C8 witness: the setter rejected a name on a visual whose stored mode is a
\* software filter.
C8_Witness ==
    /\ lastOp.op = "call"
    /\ lastOp.err = InterpolationError
    /\ image._interpolation = "bicubic"

\* C9: the stored gamma of a constructed visual is greater than 0; the setter
\* raises for a value <= 0 and keeps the stored gamma, and stores any other
\* value.
C9_GammaPositive ==
    /\ [](Constructed => image._gamma > 0)
    /\ [][\A value \in GammaInputs :
            SetGamma(value) =>
                IF value <= 0
                THEN /\ lastOp'.err = ValueError("gamma must be > 0")
                     /\ image'._gamma = image._gamma
                ELSE /\ lastOp'.err = NoErr
                     /\ image'._gamma = value]_vars

\* C9 witness: the setter rejected a value after it had accepted the largest
\* one.
C9_Witness ==
    /\ lastOp.op = "call"
    /\ lastOp.err = ValueError("gamma must be > 0")
    /\ image._gamma = MaxGamma
    /\ shared_program.color_transform # NoTransform
    /\ shared_program.color_transform.gamma = MaxGamma

\* C10: after every draw preparation that completes, the gamma and clim of
\* the installed color transform are those a rebuild would bind: the image's
\* gamma and the texture's normalized clim.
C10_InstalledTransformMatchesRebuild ==
    DrawDone =>
        /\ shared_program.color_transform # NoTransform
        /\ shared_program.color_transform.gamma = _build_color_transform(St).gamma
        /\ shared_program.color_transform.clim = _build_color_transform(St).clim
        /\ shared_program.color_transform.gamma = image._gamma
        /\ shared_program.color_transform.clim = clim_normalized(texture)

\* C10 witness: a completed draw that rebuilt nothing but uploaded the
\* texture, so the installed clim was refreshed in place; the installed chain
\* is still the luminance chain of an earlier rebuild while the data is RGB.
C10_Witness ==
    /\ DrawDone
    /\ Ran(steps, "texture")
    /\ ~Ran(steps, "color_transform")
    /\ shared_program.color_transform.chain[1] = "red_to_luminance"
    /\ Len(image._data.shape) = 3

\* C11: 'auto' is resolved for a view by that view's own transform
\* ('subdivide' if it is linear, 'impostor' otherwise); resolving a view
\* changes neither _method_used nor _need_method_update of any other view;
\* the visual itself and every view created later start with
\* _need_method_update true and _method_used None.
C11_MethodResolvedPerView ==
    /\ [](lastOp.op = "__init__" /\ lastOp.err = NoErr =>
            /\ Len(views) = 1
            /\ views[1]._need_method_update
            /\ views[1]._method_used = None)
    /\ [][/\ \A v \in DOMAIN views :
               (PrepareDraw(v) /\ Ran(steps', "method")) =>
                  /\ image._method = "auto" =>
                        views'[v]._method_used =
                            IF views[v].Linear THEN "subdivide" ELSE "impostor"
                  /\ \A w \in DOMAIN views \ {v} :
                        /\ views'[w]._method_used = views[w]._method_used
                        /\ views'[w]._need_method_update =
                              views[w]._need_method_update
          /\ \A linear \in BOOLEAN :
               AddView(linear) =>
                  /\ Len(views') = Len(views) + 1
                  /\ views'[Len(views')]._need_method_update
                  /\ views'[Len(views')]._method_used = None
                  /\ \A w \in DOMAIN views :
                        /\ views'[w]._method_used = views[w]._method_used
                        /\ views'[w]._need_method_update =
                              views[w]._need_method_update]_vars

\* C11 witness: under 'auto', a view with a non-linear transform has just been
\* resolved to 'impostor' while the other view, linear, stays resolved to
\* 'subdivide'.
C11_Witness ==
    /\ DrawDone
    /\ Ran(steps, "method")
    /\ image._method = "auto"
    /\ Len(views) = 2
    /\ \E v, w \in DOMAIN views :
          /\ lastOp.view = v
          /\ ~views[v].Linear /\ views[v]._method_used = "impostor"
          /\ views[w].Linear /\ views[w]._method_used = "subdivide"

\* C12: a draw preparation that runs the interpolation builder installs, for
\* 'nearest' and 'bilinear', the hardware texture lookup, and that build binds
\* neither the kernel texture nor a shape uniform; for any other mode it
\* installs that mode's software filter, binds the kernel texture to u_kernel
\* and sets the filter's shape uniform to the image's (width, height).
C12_LookupFollowsInterpolation ==
    [][\A v \in DOMAIN views :
          (PrepareDraw(v) /\ Ran(steps', "interpolation")) =>
              LET i == image._interpolation
                  fn == image'._data_lookup_fn
              IN  /\ shared_program'.get_data = fn
                  /\ image'._functions[fn].texture = "_texture"
                  /\ IF i \in {"nearest", "bilinear"}
                     THEN /\ fn = hardware_lookup
                          /\ shared_program'.u_kernel = shared_program.u_kernel
                          /\ image'._functions[fn].shape =
                                image._functions[fn].shape
                     ELSE /\ \E n \in Range(load_spatial_filters) :
                                lower(n) = i /\ fn = FilterFn(n)
                          /\ shared_program'.u_kernel = "_kerneltex"
                          /\ image'._functions[fn].shape =
                                Reversed(shape2(image._data))]_vars

\* C12 witness: a draw switched back to a hardware mode after a draw with a
\* software filter: the hardware lookup is installed, the kernel texture
\* still bound from the earlier build.
C12_Witness ==
    /\ DrawDone
    /\ Ran(steps, "interpolation")
    /\ image._interpolation = "bilinear"
    /\ shared_program.get_data = hardware_lookup
    /\ shared_program.u_kernel = "_kerneltex"
    /\ image._functions[FilterFn("Bicubic")].shape = size(St)

\* C13: right after construction and at the end of every draw preparation
\* that completes, the texture's filtering mode is 'linear' exactly when the
\* image's interpolation mode is 'bilinear', and 'nearest' otherwise.
C13_HardwareFilteringFollowsMode ==
    ((lastOp.op = "__init__" /\ lastOp.err = NoErr) \/ DrawDone) =>
        /\ texture.interpolation \in {"linear", "nearest"}
        /\ texture.interpolation = "linear" <=> image._interpolation = "bilinear"

\* C13 witness: a completed draw rebuilt the lookup for a software filter
\* after an earlier draw with a hardware mode; the texture has 'nearest'
\* filtering.
C13_Witness ==
    /\ DrawDone
    /\ Ran(steps, "interpolation")
    /\ image._interpolation = "bicubic"
    /\ texture.interpolation = "nearest"
    /\ image._functions[hardware_lookup].texture = "_texture"

\* C14: a draw preparation that runs the texture builder clears the
\* texture-upload flag; the builder leaves the color-transform flag dirty
\* exactly when it was dirty already or the upload changed the texture's
\* internal format; a changed format has the color transform rebuilt in the
\* same draw; with the format unchanged and the flag clean, the installed
\* color transform is left as it was but for its clim, refreshed to the
\* texture's normalized clim.
C14_TextureBuilderMarksColorOnFormatChange ==
    [][\A v \in DOMAIN views :
          (PrepareDraw(v) /\ Ran(steps', "texture")) =>
              LET k == CHOOSE i \in DOMAIN steps' : steps'[i].builder = "texture"
                  st == steps'[k]
                  changed == texture'.internalformat # texture.internalformat
              IN  /\ ~st.post.texture
                  /\ ~image'._need_texture_upload
                  /\ st.post.color_transform <=>
                        (st.pre.color_transform \/ changed)
                  /\ changed =>
                        /\ Ran(steps', "color_transform")
                        /\ steps'[k + 1].builder = "color_transform"
                  /\ (~changed /\ ~st.pre.color_transform) =>
                        /\ ~Ran(steps', "color_transform")
                        /\ shared_program.color_transform # NoTransform
                        /\ shared_program'.color_transform =
                              [shared_program.color_transform EXCEPT
                                  !.clim = clim_normalized(texture')]]_vars

\* C14 witness: on a GPU-scaled texture that held one 8-bit band, an upload
\* of three float bands changed the internal format while the color
\* transform was clean; the same draw rebuilt the color transform.
C14_Witness ==
    /\ DrawDone
    /\ texture.kind = "gpu"
    /\ texture.internalformat = <<3, "32f">>
    /\ Len(steps) = 2
    /\ steps[1].builder = "texture"
    /\ ~steps[1].pre.color_transform
    /\ steps[1].post.color_transform
    /\ steps[2].builder = "color_transform"
    /\ shared_program.color_transform.chain[1] = "null_color_transform"

\* The method _update_method chooses for view v from the image's method.
ResolvedMethod(v) ==
    IF image._method = "auto"
    THEN IF views[v].Linear THEN "subdivide" ELSE "impostor"
    ELSE image._method

\* C15 as stated: at the end of every draw preparation that completes for a
\* view, the view's _method_used is the image's method, or the choice by
\* linearity when the method is 'auto'.
C15_MethodUsedAgreesWithMethod ==
    DrawDone => views[lastOp.view]._method_used = ResolvedMethod(lastOp.view)

\* C15 failing input: a draw completed after the method setter changed the
\* method; the view still uses the method resolved by its first draw.
C15_StaleMethodUsed ==
    /\ DrawDone
    /\ image._method = "impostor"
    /\ views[lastOp.view]._method_used = "subdivide"
    /\ ~views[lastOp.view]._need_method_update
    /\ Ran(steps, "vertex")
    /\ ~Ran(steps, "method")

\* C16 as stated: at the end of every draw preparation that completes, the
\* image_size uniform is the current image's (width, height), and with a
\* software filter active so is the shape uniform of the lookup function.
C16_SizeUniformsMatchData ==
    DrawDone =>
        /\ shared_program.image_size = size(St)
        /\ image._interpolation \notin {"nearest", "bilinear"} =>
              image._functions[image._data_lookup_fn].shape = size(St)

\* C16 failing input: a completed draw uploaded an array of another height
\* and width and rebuilt the vertex buffers for it, while image_size and the
\* software filter's shape uniform keep the size of the earlier array.
C16_StaleSizeUniforms ==
    /\ DrawDone
    /\ Ran(steps, "texture")
    /\ Ran(steps, "vertex")
    /\ image._subdiv_position.scale = size(St)
    /\ image._interpolation = "bicubic"
    /\ shared_program.image_size # size(St)
    /\ image._functions[image._data_lookup_fn].shape # size(St)

\* C17: whenever the color-transform flag of a constructed visual is false a
\* color transform is installed in the shared program, and no call, the
\* constructor included, fails for addressing a color transform that does
\* not exist.
C17_CleanFlagMeansTransformInstalled ==
    /\ lastOp.err # KeyError("color_transform")
    /\ (Constructed /\ ~image._need_colortransform_update) =>
          /\ shared_program.color_transform # NoTransform
          /\ shared_program.color_transform.gamma = image._gamma

\* C17 witness: a mutator returned on a drawn visual whose flag is false: the
\* installed transform carries the largest gamma and the clim of an upload
\* that is still pending.
C17_Witness ==
    /\ lastOp.op = "call"
    /\ lastOp.err = NoErr
    /\ ~image._need_colortransform_update
    /\ image._need_texture_upload
    /\ image._gamma = MaxGamma
    /\ shared_program.color_transform.gamma = MaxGamma
    /\ texture.clim = Pair(0, MaxClim)
    /\ shared_program.color_transform.clim = clim_normalized(texture)

\* C18 as stated: at the end of every draw preparation that completes for a
\* view, that view's program has the lookup table of the image's current
\* colormap bound to texture2D_LUT.
C18_LutBoundOnDrawnView ==
    DrawDone =>
        views[lastOp.view].view_program.texture2D_LUT = texture_lut(image._cmap)

\* C18 failing input: a second view completed its first draw after the
\* color transform had been rebuilt in a draw of the first view: its program
\* has no lookup table bound.
C18_ViewWithoutLut ==
    /\ DrawDone
    /\ Len(views) = 2
    /\ lastOp.view = 2
    /\ Ran(steps, "method")
    /\ views[1].view_program.texture2D_LUT = texture_lut(image._cmap)
    /\ views[2].view_program.texture2D_LUT = <<>>

\* C18, the other interleaving: a view completed a draw with the lookup
\* table of a colormap the image no longer has.
C18_ViewWithOldLut ==
    /\ DrawDone
    /\ views[lastOp.view].view_program.texture2D_LUT # <<>>
    /\ views[lastOp.view].view_program.texture2D_LUT # texture_lut(image._cmap)

\* C19 as stated: u_n_atoms of a MoleculeVisual equals the number of atoms
\* its atoms texture holds, after construction and after every set_data; a
\* set_data with an argument that is not an ndarray raises and leaves the
\* texture and u_n_atoms as they were.
C19_AtomCountMatchesTexture ==
    /\ [](molecule # Absent =>
            molecule.shared_program.u_n_atoms = molecule._atoms.shape[1])
    /\ [][\A atoms \in AtomLists :
            MoleculeSetData(atoms) =>
                /\ lastOp'.err # NoErr
                /\ UNCHANGED molecule]_vars

\* C19 failing input: set_data returned for an array with more atoms than
\* the array the visual was constructed with; u_n_atoms is still the old
\* count.
C19_StaleAtomCount ==
    /\ molecule # Absent
    /\ lastOp.op = "Molecule.set_data"
    /\ lastOp.err = NoErr
    /\ molecule._atoms.shape[1] = MaxAtoms
    /\ molecule.shared_program.u_n_atoms < MaxAtoms

\* C20: after construction and after every resize(size), the depth buffer
\* has the shape (height, width) and the color and normal-depth textures the
\* shape (height, width, 4), (width, height) being the canvas size at
\* construction and the size passed to the last resize afterwards.
C20_BuffersFollowSize ==
    /\ [](renderer # Absent =>
            /\ Len(renderer.depth_buffer.shape) = 2
            /\ renderer.color_texture.shape =
                  renderer.depth_buffer.shape \o <<4>>
            /\ renderer.normal_depth_texture.shape =
                  renderer.depth_buffer.shape \o <<4>>)
    /\ [](lastOp.op = "Molecule.__init__" =>
            renderer.depth_buffer.shape =
                <<renderer.canvas.size[2], renderer.canvas.size[1]>>)
    /\ [][\A size_ \in SizeInputs :
            RendererResize(size_) =>
                /\ renderer'.depth_buffer.shape = <<size_[2], size_[1]>>
                /\ renderer'.color_texture.shape = <<size_[2], size_[1], 4>>
                /\ renderer'.normal_depth_texture.shape =
                      <<size_[2], size_[1], 4>>]_vars

\* C20 witness: a renderer built for a square canvas was resized to the
\* widest, lowest size.
C20_Witness ==
    /\ lastOp.op = "Renderer.resize"
    /\ renderer.canvas.size = <<1, 1>>
    /\ renderer.depth_buffer.shape = <<1, MaxSize>>
    /\ renderer.normal_depth_texture.shape = <<1, MaxSize, 4>>

====
